---- MODULE Spec2Model ----
(***************************************************************************)
(* Model of build(env), the icon generation pipeline of ant-design-icons:  *)
(* clear, normalize, then the rxjs flows svgMetaDataWithTheme$,            *)
(* iconFiles$, manifestFile$ and indexFile$, concatenated into files$ and  *)
(* written by the subscription that settles the promise build returns.     *)
(*                                                                         *)
(* An asynchronous task (a file read, an optimizer call, a file write) is  *)
(* one action per completion; everything rxjs does synchronously on that   *)
(* completion (emitting, formatting, starting the write, completing a      *)
(* flow and subscribing the next one) is part of the same action.          *)
(***************************************************************************)
EXTENDS Integers, Sequences, FiniteSets, TLC

(* ------------------------------ bounds -------------------------------- *)

\* at most this many svg source files on disk (the scenario layout apart)
MaxIcons == 1
\* at most this many children of the root element of an svg file
MaxChildren == 2
\* at most this many levels of elements below the root element
MaxDepth == 2
\* at most this many operations (reads, optimizer calls, formats, writes) fail
\* in one run
MaxFailures == 2

(* --------------------------- small helpers ---------------------------- *)

Range(s) == {s[i] : i \in 1..Len(s)}

RECURSIVE SelectSeqBy(_, _)
\* Array.prototype.filter / rxjs filter over a sequence, by membership
SelectSeqBy(s, keep) ==
  IF s = <<>> THEN <<>>
  ELSE IF Head(s) \in keep THEN <<Head(s)>> \o SelectSeqBy(Tail(s), keep)
       ELSE SelectSeqBy(Tail(s), keep)

\* the subsequences of s (order kept)
RECURSIVE SubSeqs(_)
SubSeqs(s) ==
  IF s = <<>> THEN {<<>>}
  ELSE LET r == SubSeqs(Tail(s)) IN r \cup {<<Head(s)>> \o t : t \in r}

(* ------------------------------ themes -------------------------------- *)

\* ThemeType, in the order build iterates it: from(['fill','outline','twotone'])
Themes == <<"fill", "outline", "twotone">>

ThemeType == Range(Themes)

\* the themes optimized with the fill-stripping optimizer
singleType == {"fill", "outline"}

(* ------------------------------- names -------------------------------- *)

\* A kebab-case base name is the sequence of its words: <<"user","add">> is
\* user-add.  The universe is listed in the Name Normalizer's canonical order.
NameUniverse == << <<"home">>, <<"user">> >>

\* _.upperFirst on one word
upperFirst(w) ==
  CASE w = "home" -> "Home"
    [] w = "user" -> "User"

RECURSIVE camelWords(_)
camelWords(ws) == IF ws = <<>> THEN "" ELSE upperFirst(Head(ws)) \o camelWords(Tail(ws))

\* _.upperFirst(_.camelCase(kebabCaseName)): camelCase drops the dashes and
\* capitalises every word but the first, upperFirst capitalises that one too
upperCamelCase(name) == camelWords(name)

\* the suffix a theme contributes to an identifier (HomeFill, HomeTwoTone)
themeSuffix(theme) ==
  CASE theme = "fill"    -> "Fill"
    [] theme = "outline" -> "Outline"
    [] theme = "twotone" -> "TwoTone"

\* utils.getIdentifier(UpperCamelCase name, theme)
getIdentifier(camel, theme) == camel \o themeSuffix(theme)

\* { kebabCaseName, identifier } -> identifier, for a (theme, name) pair
IdentifierOf(k) == getIdentifier(upperCamelCase(k[2]), k[1])

Pairs == {<<t, n>> : t \in ThemeType, n \in Range(NameUniverse)}

(* ------------------------------- paths -------------------------------- *)

RECURSIVE kebabTail(_)
kebabTail(ws) == IF ws = <<>> THEN "" ELSE "-" \o Head(ws) \o kebabTail(Tail(ws))

\* kebabCaseName as text: the words joined by '-'
kebabCaseName(name) == IF name = <<>> THEN "" ELSE Head(name) \o kebabTail(Tail(name))

\* path.resolve(SVG_DIR, theme, `${kebabCaseName}.svg`), relative to SVG_DIR
tryUrl(k) == k[1] \o "/" \o kebabCaseName(k[2]) \o ".svg"

\* path.resolve(ICON_OUTPUT_DIR, theme, `./${identifier}.ts`), relative to
\* ICON_OUTPUT_DIR
IconPath(theme, identifier) == theme \o "/" \o identifier \o ".ts"

\* env.paths.MANIFEST_OUTPUT
ManifestPath == "manifest.ts"

\* env.paths.INDEX_OUTPUT
IndexPath == "index.ts"

IconPathOf(k) == IconPath(k[1], IdentifierOf(k))

OutputPaths == {IconPathOf(k) : k \in Pairs} \cup {ManifestPath, IndexPath}

\* ExportLine as a slip would leave it: the theme directory left out of the path
ExportLineFlat(k) ==
  [exported |-> IdentifierOf(k), from |-> IdentifierOf(k)]

\* `export { default as ${identifier} } from './${icon.theme}/${identifier}';`
ExportLine(k) ==
  [exported |-> IdentifierOf(k), from |-> k[1] \o "/" \o IdentifierOf(k)]

(* ------------------------ AbstractNode, IconDefinition ----------------- *)

\* the marker of an attribute that is not there (never a value of attrs)
Absent == "<absent>"

\* attrs of a node: a function from the attribute names present to their values
MkAttrs(fill, stroke) ==
  [key \in (IF fill = Absent THEN {} ELSE {"fill"}) \cup
           (IF stroke = Absent THEN {} ELSE {"stroke"}) |->
     IF key = "fill" THEN fill ELSE stroke]

\* AbstractNode { tag, attrs, children }
Node(tag, attrs, children) == [tag |-> tag, attrs |-> attrs, children |-> children]

\* the color literals the twotone Code Emitter knows
PrimaryPlaceholder == "#333"

SecondaryPlaceholders == {"#E6E6E6", "#D9D9D9", "#D8D8D8"}

Placeholders == {PrimaryPlaceholder} \cup SecondaryPlaceholders

\* the values a fill attribute of a source file takes here: the placeholders,
\* another spelling of a placeholder (a color the emitter does not know), and
\* the empty value
FillValues == Placeholders \cup {"#e6e6e6", ""}

StrokeValues == {PrimaryPlaceholder}

\* path elements, as the unmodified optimizer and the Tree Abstractor yield them
PathNodes ==
  {Node("path", MkAttrs(f, s), <<>>) :
     f \in FillValues \cup {Absent}, s \in StrokeValues \cup {Absent}}

\* the path elements below a group
InnerPaths ==
  {Node("path", MkAttrs(f, Absent), <<>>) : f \in {Absent, "#333"}}

RECURSIVE InnerNodes(_)
\* the nodes at most d levels high that occur inside a group
InnerNodes(d) ==
  IF d = 0 THEN InnerPaths
  ELSE InnerPaths \cup
       {Node("g", MkAttrs(Absent, Absent), <<c>>) : c \in InnerNodes(d - 1)}

\* the children of the root: paths, and groups holding deeper nodes
ChildNodes ==
  PathNodes \cup
  (IF MaxDepth < 2 THEN {}
   ELSE {Node("g", MkAttrs(f, Absent), <<c>>) :
           f \in {Absent, "#D9D9D9"}, c \in InnerNodes(MaxDepth - 2)})

RECURSIVE SeqsUpTo(_, _)
\* the sequences over S of length at most n
SeqsUpTo(S, n) ==
  IF n = 0 THEN {<<>>}
  ELSE LET r == SeqsUpTo(S, n - 1) IN r \cup {<<x>> \o t : x \in S, t \in {u \in r : Len(u) = n - 1}}

\* the root element of an svg file
RootNodes == {Node("svg", MkAttrs(Absent, Absent), cs) : cs \in SeqsUpTo(ChildNodes, MaxChildren)}

RECURSIVE removeAttrsFill(_)
RECURSIVE removeAttrsFillAll(_)
\* the svgo plugin { removeAttrs: { attrs: ['fill'] } }: no element keeps fill
removeAttrsFill(n) ==
  Node(n.tag, [key \in DOMAIN n.attrs \ {"fill"} |-> n.attrs[key]],
       removeAttrsFillAll(n.children))
removeAttrsFillAll(cs) ==
  IF cs = <<>> THEN <<>> ELSE <<removeAttrsFill(Head(cs))>> \o removeAttrsFillAll(Tail(cs))

\* optimize as a slip would leave it: the two optimizers taken for each other
optimizeSwapped(theme, root) == IF theme \in singleType THEN root ELSE removeAttrsFill(root)

\* optimizer = singleType.includes(theme) ? svgoForSingleIcon : svgo, applied
\* to a file the unmodified optimizer turns into the tree root
optimize(theme, root) == IF theme \in singleType THEN removeAttrsFill(root) ELSE root

\* const icon = { name: kebabCaseName, theme, ...generateAbstractTree(...) }
IconDefinition(name, theme, tree) ==
  [name |-> name, theme |-> theme, tag |-> tree.tag, attrs |-> tree.attrs,
   children |-> tree.children]

(* ----------------------------- Theme Fixup ---------------------------- *)

\* attrs.fill, undefined when the key is not there
fillOf(attrs) == IF "fill" \in DOMAIN attrs THEN attrs["fill"] ELSE Absent

\* fixFill as a slip would leave it: the assignment left out
fixFillSkipped(pathElment) == pathElment

\* pathElment.attrs.fill = pathElment.attrs.fill || '#333'
\* (undefined and the empty string are both falsy)
fixFill(pathElment) ==
  [pathElment EXCEPT !.attrs =
     [key \in DOMAIN pathElment.attrs \cup {"fill"} |->
        IF key = "fill"
        THEN (IF fillOf(pathElment.attrs) \in {Absent, ""} THEN "#333"
              ELSE fillOf(pathElment.attrs))
        ELSE pathElment.attrs[key]]]

\* if (icon.theme === 'twotone') { icon = _.cloneDeep(icon);
\*   icon.children.forEach(...) }
themeFixup(icon) ==
  IF icon.theme = "twotone"
  THEN [icon EXCEPT !.children = [i \in 1..Len(icon.children) |-> fixFill(icon.children[i])]]
  ELSE icon

(* --------------------- JSON.stringify, as tokens ----------------------- *)

\* a token of the serialized text: punctuation, a string literal "...", or an
\* identifier
P(c) == [t |-> "punct", v |-> c]
S(v) == [t |-> "string", v |-> v]
Id(v) == [t |-> "ident", v |-> v]

\* the order JSON.stringify lists the attributes in
AttrOrder == <<"fill", "stroke">>

RECURSIVE stringifyAttrs(_, _, _)
stringifyAttrs(attrs, keys, first) ==
  IF keys = <<>> THEN <<>>
  ELSE IF Head(keys) \in DOMAIN attrs
       THEN (IF first THEN <<>> ELSE <<P(",")>>) \o
            <<S(Head(keys)), P(":"), S(attrs[Head(keys)])>> \o
            stringifyAttrs(attrs, Tail(keys), FALSE)
       ELSE stringifyAttrs(attrs, Tail(keys), first)

RECURSIVE stringifyNode(_)
RECURSIVE stringifyNodes(_, _)
\* "tag":...,"attrs":{...},"children":[...]
stringifyTree(n) ==
  <<S("tag"), P(":"), S(n.tag), P(","), S("attrs"), P(":"), P("{")>> \o
  stringifyAttrs(n.attrs, AttrOrder, TRUE) \o
  <<P("}"), P(","), S("children"), P(":"), P("[")>> \o
  stringifyNodes(n.children, TRUE) \o <<P("]")>>
stringifyNode(n) == <<P("{")>> \o stringifyTree(n) \o <<P("}")>>
stringifyNodes(cs, first) ==
  IF cs = <<>> THEN <<>>
  ELSE (IF first THEN <<>> ELSE <<P(",")>>) \o stringifyNode(Head(cs)) \o
       stringifyNodes(Tail(cs), FALSE)

\* JSON.stringify(icon): name and theme first, then the spread tree
stringify(icon) ==
  <<P("{"), S("name"), P(":"), S(icon.name), P(","),
    S("theme"), P(":"), S(icon.theme), P(",")>> \o
  stringifyTree(icon) \o <<P("}")>>

(* ----------------------------- Code Emitter ---------------------------- *)

\* replaceAll as a slip would leave it: the pattern with the flag i, which
\* matches the lower-case spelling of the literal too
replaceAllIgnoreCase(text, lit, ident) ==
  [i \in 1..Len(text) |->
     IF text[i] = S(lit) \/ (lit = "#E6E6E6" /\ text[i] = S("#e6e6e6"))
     THEN Id(ident) ELSE text[i]]

\* text.replace(/"lit"/g, 'ident'): every string literal "lit" of the
\* serialized text becomes the identifier
replaceAll(text, lit, ident) ==
  [i \in 1..Len(text) |-> IF text[i] = S(lit) THEN Id(ident) ELSE text[i]]

\* getterBody as a slip would leave it: the replace of "#D8D8D8" left out
getterBodyThreeReplaces(icon) ==
  replaceAll(
    replaceAll(
      replaceAll(stringify(icon), "#333", "primaryColor"),
      "#E6E6E6", "secondaryColor"),
    "#D9D9D9", "secondaryColor")

\* the body of the getter: JSON.stringify(icon) with the four replaces
getterBody(icon) ==
  replaceAll(
    replaceAll(
      replaceAll(
        replaceAll(stringify(icon), "#333", "primaryColor"),
        "#E6E6E6", "secondaryColor"),
      "#D9D9D9", "secondaryColor"),
    "#D8D8D8", "secondaryColor")

\* the module of an icon: what the templates are filled with
emitModule(identifier, icon) ==
  IF icon.theme = "twotone"
  THEN [identifier |-> identifier, kind |-> "getter", body |-> getterBody(icon),
        name |-> icon.name, theme |-> icon.theme]
  ELSE [identifier |-> identifier, kind |-> "json", body |-> stringify(icon),
        name |-> icon.name, theme |-> icon.theme]

(* ----------------- evaluating the emitted object literal --------------- *)

EmptyObject == [key \in {} |-> ""]

RECURSIVE evalValue(_, _, _)
RECURSIVE evalMembers(_, _, _, _)
RECURSIVE evalElements(_, _, _, _)
\* the value of the literal that starts at text[i], with the identifiers bound
\* by env; at: the position after it
evalValue(text, i, env) ==
  CASE text[i].t = "string" -> [v |-> text[i].v, at |-> i + 1]
    [] text[i].t = "ident"  -> [v |-> env[text[i].v], at |-> i + 1]
    [] text[i] = P("{")     -> evalMembers(text, i + 1, env, EmptyObject)
    [] text[i] = P("[")     -> evalElements(text, i + 1, env, <<>>)
\* key: value pairs up to the closing brace
evalMembers(text, i, env, obj) ==
  IF text[i] = P("}") THEN [v |-> obj, at |-> i + 1]
  ELSE IF text[i] = P(",") THEN evalMembers(text, i + 1, env, obj)
  ELSE LET m == evalValue(text, i + 2, env)
       IN evalMembers(text, m.at, env, (text[i].v :> m.v) @@ obj)
\* values up to the closing bracket
evalElements(text, i, env, arr) ==
  IF text[i] = P("]") THEN [v |-> arr, at |-> i + 1]
  ELSE IF text[i] = P(",") THEN evalElements(text, i + 1, env, arr)
  ELSE LET e == evalValue(text, i, env)
       IN evalElements(text, e.at, env, Append(arr, e.v))

\* function (primaryColor, secondaryColor) { return <body>; }
callGetter(body, primaryColor, secondaryColor) ==
  evalValue(body, 1,
            [primaryColor |-> primaryColor, secondaryColor |-> secondaryColor]).v

\* the colors a caller passes to a getter
ArgColors == {"#1890ff", "#e6f7ff"}

\* log.info(`Generated ./${path.relative(env.base, writeFilePath)}.`)
Generated(path) == "Generated ./" \o path \o "."

\* log.notice('Done.')
Done == "Done."

Notices == {Generated(path) : path \in OutputPaths} \cup {Done}

(* ------------------------------- state -------------------------------- *)

VARIABLES
  diskNames,      \* what normalize() will return: the canonical base names
  svgFiles,       \* the (theme, name) pairs whose svg file exists
  pc,             \* where build() is: clear, normalize, templates, streaming, end
  svgBasicNames,  \* const svgBasicNames = await normalize(env)
  promise,        \* the promise build returns: pending, resolved, rejected
  rejectedWith,   \* the error it was rejected with
  thrown,         \* the errors the operations of the run threw, in order
  pass,           \* files$: 0 not subscribed, 1 iconFiles$, 2 indexFile$, 3 completed
  tasks,          \* tasks[p][k]: the materialization task of pair k in subscription p
  issued,         \* the paths of the write tasks, in the order files$ emitted them
  wr,             \* wr[path]: the fs.writeFile of that path
  manifest,       \* the Manifest the manifest flow reduced
  indexLines,     \* the accumulator of the index flow's reduce
  notices,        \* notices[n]: how many times log printed the notice n
  outputDir,      \* the files in the output directory
  \* one icon followed through materialization, fixup, emitter and a call
  emPc,           \* raw, materialized, emitted, called (idle: not followed)
  svg,            \* the source file: name, theme and its root element
  icon,           \* the IconDefinition the materialization task returns
  fixedIcon,      \* the icon after the Theme Fixup
  module,         \* the module the Code Emitter renders
  call            \* a call of the module's getter and what it returned

buildVars == <<diskNames, svgFiles, pc, svgBasicNames, promise, rejectedWith,
               thrown, pass,
               tasks, issued, wr, manifest, indexLines, notices, outputDir>>

emitVars == <<emPc, svg, icon, fixedIcon, module, call>>

vars == <<buildVars, emitVars>>

NoError == [kind |-> "none", at |-> ""]

\* what an earlier run can have left in the output directory: a file this run
\* writes again and a module of an icon that has no source file any more
StaleOutput == {IndexPath, "fill/GoneFill.ts"}

EmptyManifest == [fill |-> <<>>, outline |-> <<>>, twotone |-> <<>>]

IdleTasks == [p \in {1, 2} |-> [k \in Pairs |-> "idle"]]

\* the layout of the scenario: home and user in fill, home in twotone
ScenarioFiles ==
  {<<"fill", <<"home">>>>, <<"fill", <<"user">>>>, <<"twotone", <<"home">>>>}

NoIcon == IconDefinition("", "fill", Node("", EmptyObject, <<>>))

NoCall == [primaryColor |-> "", secondaryColor |-> "", result |-> NoIcon]

\* no icon is followed
EmitIdle ==
  /\ emPc = "idle"
  /\ svg = [name |-> <<>>, theme |-> "fill", root |-> Node("", EmptyObject, <<>>)]
  /\ icon = NoIcon
  /\ fixedIcon = NoIcon
  /\ module = emitModule("", NoIcon)
  /\ call = NoCall

Init ==
  /\ EmitIdle
  /\ diskNames \in SubSeqs(NameUniverse)
  /\ svgFiles \in {f \in SUBSET {k \in Pairs : k[2] \in Range(diskNames)} :
                     Cardinality(f) <= MaxIcons \/ f = ScenarioFiles}
  /\ pc = "clear"
  /\ svgBasicNames = <<>>
  /\ promise = "pending"
  /\ rejectedWith = NoError
  /\ thrown = <<>>
  /\ pass = 0
  /\ tasks = IdleTasks
  /\ issued = <<>>
  /\ wr = [f \in OutputPaths |-> "none"]
  /\ manifest = EmptyManifest
  /\ indexLines = <<>>
  /\ notices = [n \in Notices |-> 0]
  /\ outputDir \in SUBSET StaleOutput

(* ------------------------ the flows, as functions ---------------------- *)

\* utils.isAccessable(path.resolve(SVG_DIR, theme, `${name}.svg`))
isAccessable(theme, name) == <<theme, name>> \in svgFiles

\* the inner flow of one theme up to the filter: the accessible names, in the
\* order from(svgBasicNames) emits them
AccessibleNames(theme) ==
  SelectSeqBy(svgBasicNames, {n \in Range(svgBasicNames) : isAccessable(theme, n)})

\* Materialized as a slip would leave it: the isAccessable filter left out
MaterializedUnfiltered == {k \in Pairs : k[2] \in Range(svgBasicNames)}

\* the pairs one subscription of svgMetaDataWithTheme$ starts a task for
Materialized == {k \in Pairs : k[2] \in Range(AccessibleNames(k[1]))}

\* mergeMap(async ...) with no concurrency limit: every task starts on subscription
StartTasks == [k \in Pairs |-> IF k \in Materialized THEN "reading" ELSE "idle"]

\* ManifestNames as a slip would leave it: the file looked up under 'fill' for every theme
ManifestNamesOfFill(theme) ==
  SelectSeqBy(svgBasicNames, {n \in Range(svgBasicNames) : isAccessable("fill", n)})

\* manifestFile$: names: svgBasicNames.filter(isAccessable), reduced per theme
ManifestNames(theme) ==
  SelectSeqBy(svgBasicNames, {n \in Range(svgBasicNames) : isAccessable(theme, n)})

manifestFile == [t \in ThemeType |-> ManifestNames(t)]

\* AllDone as a slip would leave it: the flow taken as complete when its
\* first task has delivered
FirstDone(ts) == \E k \in Pairs : ts[k] = "done"

\* every task of subscription p has delivered its value
AllDone(ts) == \A k \in Pairs : ts[k] \in {"idle", "done"}

Alive == pc = "streaming" /\ promise = "pending"

\* the operations that have failed so far
Failures == Len(thrown)

Err(kind, at) == [kind |-> kind, at |-> at]

\* What the flows downstream of a completion hold: the part of the state the
\* synchronous rxjs cascade rewrites.
Flow == [pass |-> pass, tasks |-> tasks, issued |-> issued, wr |-> wr,
         manifest |-> manifest, indexLines |-> indexLines, err |-> NoError]

\* the write mergeMap: fs.writeFile starts as soon as files$ emits the task
StartWrite(f, path) ==
  [f EXCEPT !.issued = Append(@, path), !.wr = [@ EXCEPT ![path] = "inflight"]]

\* indexFile$ has reduced every line: format the index, emit its write task,
\* and files$ completes.  fi: Prettier.format accepts the index text.
EmitIndex(f, fi) ==
  IF fi THEN [StartWrite(f, IndexPath) EXCEPT !.pass = 3]
  ELSE [f EXCEPT !.err = Err("format", IndexPath)]

\* iconFiles$ completed: concat subscribes manifestFile$, which emits the
\* manifest write task at once, and then indexFile$, a second subscription of
\* svgMetaDataWithTheme$ that starts every materialization task again.
\* fm, fi: Prettier.format accepts the manifest, the index text.
IconsComplete(f, fm, fi) ==
  IF ~fm THEN [f EXCEPT !.err = Err("format", ManifestPath)]
  ELSE LET m == [StartWrite(f, ManifestPath) EXCEPT
                   !.manifest = manifestFile,
                   !.pass = 2,
                   !.tasks = [@ EXCEPT ![2] = StartTasks]]
       IN IF Materialized = {} THEN EmitIndex(m, fi) ELSE m

\* the subscriber's error callback is reject; complete never follows an error
Settle(f) ==
  /\ pass' = f.pass
  /\ tasks' = f.tasks
  /\ issued' = f.issued
  /\ wr' = f.wr
  /\ manifest' = f.manifest
  /\ indexLines' = f.indexLines
  /\ promise' = IF f.err = NoError THEN promise ELSE "rejected"
  /\ rejectedWith' = IF f.err = NoError THEN rejectedWith ELSE f.err
  /\ thrown' = IF f.err = NoError THEN thrown ELSE Append(thrown, f.err)

(* ------------------------------ actions ------------------------------- *)

\* Clear as a slip would leave it: the old output files are not removed
ClearLeavesFiles ==
  /\ pc = "clear"
  /\ pc' = "normalize"
  /\ UNCHANGED <<emitVars, outputDir, diskNames, svgFiles, svgBasicNames, promise, rejectedWith, thrown, pass,
                 tasks, issued, wr, manifest, indexLines, notices>>

\* await clear(env): remove and delete all old output files
Clear ==
  /\ pc = "clear"
  /\ pc' = "normalize"
  /\ outputDir' = {}
  /\ UNCHANGED <<emitVars, diskNames, svgFiles, svgBasicNames, promise, rejectedWith, thrown, pass,
                 tasks, issued, wr, manifest, indexLines, notices>>

\* const svgBasicNames = await normalize(env)
Normalize ==
  /\ pc = "normalize"
  /\ pc' = "templates"
  /\ svgBasicNames' = diskNames
  /\ UNCHANGED <<emitVars, outputDir, diskNames, svgFiles, promise, rejectedWith, thrown, pass,
                 tasks, issued, wr, manifest, indexLines, notices>>

\* an await before the subscription throws: the async function rejects
PrologueFail ==
  /\ pc \in {"clear", "normalize", "templates"}
  /\ pc' = "end"
  /\ promise' = "rejected"
  /\ rejectedWith' = Err(pc, "")
  /\ thrown' = Append(thrown, Err(pc, ""))
  /\ UNCHANGED <<emitVars, outputDir, diskNames, svgFiles, svgBasicNames, pass, tasks, issued, wr,
                 manifest, indexLines, notices>>

\* the four templates are read, then files$ is subscribed: iconFiles$ starts
\* one task per accessible (theme, name)
Subscribe ==
  /\ pc = "templates"
  /\ pc' = "streaming"
  /\ \E fm, fi \in BOOLEAN :
       LET f == [Flow EXCEPT !.pass = 1, !.tasks = [@ EXCEPT ![1] = StartTasks]]
       IN Settle(IF Materialized = {} THEN IconsComplete(f, fm, fi) ELSE f)
  /\ UNCHANGED <<emitVars, outputDir, diskNames, svgFiles, svgBasicNames, notices>>

\* await fs.readFile(tryUrl, 'utf8') returns; optimizer.optimize starts.  The
\* task is a promise: it runs on whether or not its subscriber still listens.
ReadDone(p, k) ==
  /\ tasks[p][k] = "reading"
  /\ tasks' = [tasks EXCEPT ![p][k] = "optimizing"]
  /\ UNCHANGED <<emitVars, outputDir, diskNames, svgFiles, pc, svgBasicNames, promise, rejectedWith,
                 thrown, pass, issued, wr, manifest, indexLines, notices>>

\* TaskFail as a slip would leave it: the error of a task is caught and dropped
TaskFailSwallowed(p, k) ==
  /\ tasks[p][k] \in {"reading", "optimizing"}
  /\ Failures < MaxFailures
  /\ tasks' = [tasks EXCEPT ![p][k] = "failed"]
  /\ thrown' = Append(thrown, Err(IF tasks[p][k] = "reading" THEN "read" ELSE "optimize",
                                  tryUrl(k)))
  /\ UNCHANGED <<emitVars, outputDir, diskNames, svgFiles, pc, svgBasicNames, promise,
                 rejectedWith, pass, issued, wr, manifest, indexLines, notices>>

\* the read or the optimize/parse of a task throws: the task's promise rejects
\* and, if files$ is still subscribed, the error reaches reject
TaskFail(p, k) ==
  /\ tasks[p][k] \in {"reading", "optimizing"}
  /\ Failures < MaxFailures
  /\ tasks' = [tasks EXCEPT ![p][k] = "failed"]
  /\ LET e == Err(IF tasks[p][k] = "reading" THEN "read" ELSE "optimize", tryUrl(k))
     IN /\ thrown' = Append(thrown, e)
        /\ promise' = IF Alive THEN "rejected" ELSE promise
        /\ rejectedWith' = IF Alive THEN e ELSE rejectedWith
  /\ UNCHANGED <<emitVars, outputDir, diskNames, svgFiles, pc, svgBasicNames, pass, issued, wr,
                 manifest, indexLines, notices>>

\* a task of iconFiles$ returns { identifier, icon }: fixup, Code Emitter and
\* format run, the write of the icon module starts; the last task to return
\* completes iconFiles$.  fc: Prettier.format accepts the icon module.
IconDone(k) ==
  /\ tasks[1][k] = "optimizing"
  /\ \E fc, fm, fi \in BOOLEAN :
       LET t == [Flow EXCEPT !.tasks = [@ EXCEPT ![1][k] = "done"]]
           w == StartWrite(t, IconPathOf(k))
       IN Settle(IF ~Alive THEN t
                 ELSE IF ~fc THEN [t EXCEPT !.err = Err("format", IconPathOf(k))]
                 ELSE IF AllDone(w.tasks[1]) THEN IconsComplete(w, fm, fi)
                 ELSE w)
  /\ UNCHANGED <<emitVars, outputDir, diskNames, svgFiles, pc, svgBasicNames, notices>>

\* a task of indexFile$ returns: reduce appends its line to the accumulator;
\* the last task to return lets reduce emit
IndexDone(k) ==
  /\ tasks[2][k] = "optimizing"
  /\ \E fi \in BOOLEAN :
       LET t == [Flow EXCEPT !.tasks = [@ EXCEPT ![2][k] = "done"]]
           a == [t EXCEPT !.indexLines = Append(@, ExportLine(k))]
       IN Settle(IF ~Alive THEN t
                 ELSE IF AllDone(a.tasks[2]) THEN EmitIndex(a, fi)
                 ELSE a)
  /\ UNCHANGED <<emitVars, outputDir, diskNames, svgFiles, pc, svgBasicNames, notices>>

\* WritesComplete as a slip would leave it: complete as soon as files$ completes, whatever
\* writes are still active
WritesCompleteOnSourceEnd(w) == pass = 3

\* all write tasks files$ emitted are written and files$ has completed
WritesComplete(w) == pass = 3 /\ \A i \in 1..Len(issued) : w[issued[i]] = "written"

\* WriteDone as a slip would leave it: log.info left out
WriteDoneSilent(path) ==
  /\ wr[path] = "inflight"
  /\ wr' = [wr EXCEPT ![path] = "written"]
  /\ outputDir' = outputDir \cup {path}
  /\ LET finished == Alive /\ WritesComplete(wr')
     IN /\ notices' = [n \in Notices |->
                          IF n = Done /\ finished THEN notices[n] + 1 ELSE notices[n]]
        /\ promise' = IF finished THEN "resolved" ELSE promise
  /\ UNCHANGED <<emitVars, diskNames, svgFiles, pc, svgBasicNames, rejectedWith, thrown, pass,
                 tasks, issued, manifest, indexLines>>

\* await fs.writeFile returns and log.info prints; when it was the last write
\* of a completed files$, the complete callback prints 'Done.' and resolves
WriteDone(path) ==
  /\ wr[path] = "inflight"
  /\ wr' = [wr EXCEPT ![path] = "written"]
  /\ outputDir' = outputDir \cup {path}
  /\ LET finished == Alive /\ WritesComplete(wr')
     IN /\ notices' = [n \in Notices |->
                          IF n = Generated(path) \/ (n = Done /\ finished)
                          THEN notices[n] + 1 ELSE notices[n]]
        /\ promise' = IF finished THEN "resolved" ELSE promise
  /\ UNCHANGED <<emitVars, diskNames, svgFiles, pc, svgBasicNames, rejectedWith, thrown, pass,
                 tasks, issued, manifest, indexLines>>

\* WriteFail as a slip would leave it: the error of a write reaches no
\* error callback
WriteFailSwallowed(path) ==
  /\ wr[path] = "inflight"
  /\ Failures < MaxFailures
  /\ wr' = [wr EXCEPT ![path] = "failed"]
  /\ thrown' = Append(thrown, Err("write", path))
  /\ UNCHANGED <<emitVars, outputDir, diskNames, svgFiles, pc, svgBasicNames, promise,
                 rejectedWith, pass, tasks, issued, manifest, indexLines, notices>>

\* fs.writeFile throws
WriteFail(path) ==
  /\ wr[path] = "inflight"
  /\ Failures < MaxFailures
  /\ wr' = [wr EXCEPT ![path] = "failed"]
  /\ promise' = IF Alive THEN "rejected" ELSE promise
  /\ rejectedWith' = IF Alive THEN Err("write", path) ELSE rejectedWith
  /\ thrown' = Append(thrown, Err("write", path))
  /\ UNCHANGED <<emitVars, outputDir, diskNames, svgFiles, pc, svgBasicNames, pass, tasks, issued,
                 manifest, indexLines, notices>>

Next ==
  \/ Clear
  \/ Normalize
  \/ PrologueFail
  \/ Subscribe
  \/ \E p \in {1, 2}, k \in Pairs : ReadDone(p, k)
  \/ \E p \in {1, 2}, k \in Pairs : TaskFail(p, k)
  \/ \E k \in Pairs : IconDone(k)
  \/ \E k \in Pairs : IndexDone(k)
  \/ \E path \in OutputPaths : WriteDone(path)
  \/ \E path \in OutputPaths : WriteFail(path)

Spec == Init /\ [][Next]_vars

\* every external operation that is pending eventually returns or fails.  No
\* step of build can be taken twice from one state (each one advances pc, a
\* task or a write), so fairness of Next is all the assumption amounts to.
SpecFair == Init /\ [][Next]_vars /\ WF_vars(Next)

(* ---------------- one icon, from source file to getter call ------------ *)

\* build has not started
BuildIdle ==
  /\ diskNames = <<>>
  /\ svgFiles = {}
  /\ pc = "idle"
  /\ svgBasicNames = <<>>
  /\ promise = "pending"
  /\ rejectedWith = NoError
  /\ thrown = <<>>
  /\ pass = 0
  /\ tasks = IdleTasks
  /\ issued = <<>>
  /\ wr = [f \in OutputPaths |-> "none"]
  /\ manifest = EmptyManifest
  /\ indexLines = <<>>
  /\ notices = [n \in Notices |-> 0]
  /\ outputDir = {}

InitEmit ==
  /\ BuildIdle
  /\ emPc = "raw"
  /\ svg \in [name : {NameUniverse[1]}, theme : ThemeType, root : RootNodes]
  /\ icon = NoIcon
  /\ fixedIcon = NoIcon
  /\ module = emitModule("", NoIcon)
  /\ call = NoCall

\* the materialization task of the file: optimize, parse, wrap
Materialize ==
  /\ emPc = "raw"
  /\ emPc' = "materialized"
  /\ icon' = IconDefinition(kebabCaseName(svg.name), svg.theme,
                            optimize(svg.theme, svg.root))
  /\ UNCHANGED <<buildVars, svg, fixedIcon, module, call>>

\* EmitIcon as a slip would leave it: the fixup done on the icon itself, the
\* cloneDeep left out
EmitIconInPlace ==
  /\ emPc = "materialized"
  /\ emPc' = "emitted"
  /\ icon' = themeFixup(icon)
  /\ fixedIcon' = icon'
  /\ module' = emitModule(getIdentifier(upperCamelCase(svg.name), svg.theme),
                          fixedIcon')
  /\ UNCHANGED <<buildVars, svg, call>>

\* the map of iconFiles$: Theme Fixup on a copy, then the Code Emitter
EmitIcon ==
  /\ emPc = "materialized"
  /\ emPc' = "emitted"
  /\ fixedIcon' = themeFixup(icon)
  /\ module' = emitModule(getIdentifier(upperCamelCase(svg.name), svg.theme),
                          fixedIcon')
  /\ UNCHANGED <<buildVars, svg, icon, call>>

\* a user of a twotone module calls its getter with two colors
CallGetter(primaryColor, secondaryColor) ==
  /\ emPc = "emitted"
  /\ module.kind = "getter"
  /\ emPc' = "called"
  /\ call' = [primaryColor |-> primaryColor, secondaryColor |-> secondaryColor,
              result |-> callGetter(module.body, primaryColor, secondaryColor)]
  /\ UNCHANGED <<buildVars, svg, icon, fixedIcon, module>>

\* a user of a single-color module reads the IconDefinition it exports
ReadModule ==
  /\ emPc = "emitted"
  /\ module.kind = "json"
  /\ emPc' = "called"
  /\ call' = [NoCall EXCEPT !.result = evalValue(module.body, 1, EmptyObject).v]
  /\ UNCHANGED <<buildVars, svg, icon, fixedIcon, module>>

NextEmit ==
  \/ Materialize
  \/ EmitIcon
  \/ \E primaryColor \in ArgColors :
       \E secondaryColor \in ArgColors \ {primaryColor} :
         CallGetter(primaryColor, secondaryColor)
  \/ ReadModule

SpecEmit == InitEmit /\ [][NextEmit]_vars


(* ============================== claims ================================ *)

\* the position of x in the sequence q (0 when it is not there)
PosIn(q, x) == IF x \in Range(q) THEN CHOOSE i \in 1..Len(q) : q[i] = x ELSE 0

\* how many times x occurs in the sequence q
Occurrences(q, x) == Cardinality({i \in 1..Len(q) : q[i] = x})

\* rank of a pair in theme-then-canonical-name order
ThemeRank(theme) == PosIn(Themes, theme)
PairBefore(a, b) ==
  \/ ThemeRank(a[1]) < ThemeRank(b[1])
  \/ ThemeRank(a[1]) = ThemeRank(b[1]) /\ PosIn(svgBasicNames, a[2]) < PosIn(svgBasicNames, b[2])

\* the pair an index line re-exports
PairOfLine(line) == CHOOSE k \in Pairs : IdentifierOf(k) = line.exported

\* C1: on every successful run the re-export lines of the index stand in the
\* order fill, outline, twotone and, within a theme, in canonical name order,
\* whichever materialization task finished first.
C1_IndexOrderDeterministic ==
  promise = "resolved" =>
    \A i, j \in 1..Len(indexLines) :
      i < j => PairBefore(PairOfLine(indexLines[i]), PairOfLine(indexLines[j]))

\* C2: when the optimization of a source file fails and aborts the run, no
\* write to the output directory has been started.
C2_NoWriteWhenOptimizeFails ==
  (\E i \in 1..Len(thrown) : thrown[i].kind = "optimize") =>
    \A path \in OutputPaths : wr[path] = "none"

\* C3: on every successful run manifest[theme] is, for every theme, the
\* canonical name list restricted to the names with a source file under that
\* theme: the same names, no duplicates, in canonical order.
C3_ManifestIsCanonicalSubsequence ==
  promise = "resolved" =>
    \A theme \in ThemeType :
      LET m == manifest[theme] IN
        /\ Range(m) = {n \in Range(diskNames) : <<theme, n>> \in svgFiles}
        /\ \A i, j \in 1..Len(m) : i < j => PosIn(diskNames, m[i]) < PosIn(diskNames, m[j])

\* C3 witness: the scenario run succeeded with the manifest
\* {fill: [home, user], outline: [], twotone: [home]}
C3_Witness ==
  /\ promise = "resolved"
  /\ manifest = [fill |-> << <<"home">>, <<"user">> >>, outline |-> <<>>,
                 twotone |-> << <<"home">> >>]

\* C4: on every successful run the index holds exactly one re-export line per
\* (theme, name) with a source file and none for another pair, and the line
\* re-exports UpperCamelCase(name) + theme suffix from './{theme}/{identifier}',
\* the path of the icon module written for that pair.
C4_IndexLines ==
  promise = "resolved" =>
    /\ \A k \in Pairs :
         Occurrences(indexLines,
                     [exported |-> upperCamelCase(k[2]) \o themeSuffix(k[1]),
                      from |-> k[1] \o "/" \o upperCamelCase(k[2]) \o themeSuffix(k[1])])
           = (IF k \in svgFiles THEN 1 ELSE 0)
    /\ Len(indexLines) = Cardinality(svgFiles)
    /\ \A i \in 1..Len(indexLines) :
         /\ indexLines[i].from \o ".ts" \in Range(issued)
         /\ wr[indexLines[i].from \o ".ts"] = "written"

\* C4 witness: a successful run whose index re-exports icons of two themes
C4_Witness ==
  /\ promise = "resolved"
  /\ \E i, j \in 1..Len(indexLines) :
       /\ indexLines[i] = [exported |-> "HomeTwoTone", from |-> "twotone/HomeTwoTone"]
       /\ indexLines[j] = [exported |-> "UserFill", from |-> "fill/UserFill"]

\* C5: the promise resolves only when every write task of the run (one per
\* materialized icon, the manifest, the index) has been started and has
\* completed: none is in flight or still to be issued.
C5_ResolvedAfterAllWrites ==
  promise = "resolved" =>
    /\ \A k \in svgFiles : wr[IconPathOf(k)] = "written"
    /\ wr[ManifestPath] = "written"
    /\ wr[IndexPath] = "written"
    /\ \A path \in OutputPaths : wr[path] \in {"none", "written"}
    /\ \A p \in {1, 2}, k \in Pairs : tasks[p][k] \in {"idle", "done"}

\* C5 witness: the scenario run resolved, its five files written
C5_Witness ==
  /\ promise = "resolved"
  /\ svgFiles = ScenarioFiles
  /\ Cardinality({path \in OutputPaths : wr[path] = "written"}) = 5


\* the kinds of error of the operations of the flows
FlowErrors == {"read", "optimize", "format", "write"}

C7_StopsAfterRejection ==
  [][promise = "rejected" => (tasks' = tasks /\ wr' = wr)]_vars

\* the path of the icon module of a pair, spelled out
ModulePath(k) == k[1] \o "/" \o upperCamelCase(k[2]) \o themeSuffix(k[1]) \o ".ts"

\* C8: a pair with a source file gets exactly one icon-module write task, at
\* {theme}/{identifier}.ts; a pair without one is skipped without error: no
\* read, no write task, no index line, no manifest entry.  The scenario run
\* issues 3 icon tasks, the manifest and the index; a run without any source
\* file succeeds and writes the manifest and the index only.
C8_OneTaskPerExistingPair ==
  /\ \A k \in Pairs : Occurrences(issued, ModulePath(k)) <= 1
  /\ \A k \in Pairs \ svgFiles :
       /\ tasks[1][k] = "idle" /\ tasks[2][k] = "idle"
       /\ wr[ModulePath(k)] = "none"
       /\ Occurrences(issued, ModulePath(k)) = 0
       /\ \A i \in 1..Len(indexLines) : indexLines[i].from \o ".ts" # ModulePath(k)
       /\ k[2] \notin Range(manifest[k[1]])
       /\ \A i \in 1..Len(thrown) : thrown[i].at # tryUrl(k)
  /\ promise = "resolved" =>
       /\ \A k \in svgFiles : Occurrences(issued, ModulePath(k)) = 1
       /\ Occurrences(issued, ManifestPath) = 1
       /\ Occurrences(issued, IndexPath) = 1
       /\ Len(issued) = Cardinality(svgFiles) + 2
  /\ (promise = "resolved" /\ svgFiles = ScenarioFiles) =>
       /\ Len(issued) = 5
       /\ Range(issued) = {"fill/HomeFill.ts", "fill/UserFill.ts",
                           "twotone/HomeTwoTone.ts", ManifestPath, IndexPath}
  /\ (svgFiles = {} /\ pc = "streaming" /\ thrown = <<>>) =>
       /\ issued = <<ManifestPath, IndexPath>>
       /\ promise = "resolved" <=> (wr[ManifestPath] = "written" /\ wr[IndexPath] = "written")

\* C8 witness: the scenario run succeeded after issuing its five write tasks,
\* none of them for outline or for twotone/user
C8_Witness ==
  /\ promise = "resolved"
  /\ svgFiles = ScenarioFiles
  /\ Len(issued) = 5
  /\ "twotone/HomeTwoTone.ts" \in Range(issued)
  /\ "twotone/UserTwoTone.ts" \notin Range(issued)


\* the tags of path-like drawable elements
PathLike == {"path"}

\* C9: for a twotone icon, every immediate path-like child of the root of the
\* fixed-up IconDefinition handed to the Code Emitter has a fill attribute.
C9_TwotoneChildrenHaveFill ==
  (emPc \in {"emitted", "called"} /\ svg.theme = "twotone") =>
    \A i \in 1..Len(fixedIcon.children) :
      fixedIcon.children[i].tag \in PathLike =>
        /\ "fill" \in DOMAIN fixedIcon.children[i].attrs
        /\ fixedIcon.children[i].attrs["fill"] \notin {Absent, ""}

\* C9 witness: a twotone icon was fixed up whose source had a path child
\* without fill and a path child with an empty fill
C9_Witness ==
  /\ emPc = "emitted"
  /\ svg.theme = "twotone"
  /\ \E i, j \in 1..Len(icon.children) :
       /\ icon.children[i].tag = "path" /\ "fill" \notin DOMAIN icon.children[i].attrs
       /\ icon.children[j].tag = "path" /\ fillOf(icon.children[j].attrs) = ""

\* what a placeholder stands for in a call with colors p and s
Colored(v, p, s) ==
  IF v = PrimaryPlaceholder THEN p ELSE IF v \in SecondaryPlaceholders THEN s ELSE v

RECURSIVE ColoredNode(_, _, _, _)
\* node n with the placeholder values of the attributes named in keys replaced
ColoredNode(n, keys, p, s) ==
  [n EXCEPT
     !.attrs = [key \in DOMAIN n.attrs |->
                  IF key \in keys THEN Colored(n.attrs[key], p, s) ELSE n.attrs[key]],
     !.children = [i \in 1..Len(n.children) |-> ColoredNode(n.children[i], keys, p, s)]]

RECURSIVE ColorLiterals(_)
\* the color literals of a node and its descendants
ColorLiterals(n) ==
  {n.attrs[key] : key \in DOMAIN n.attrs} \cup
  UNION {ColorLiterals(n.children[i]) : i \in 1..Len(n.children)}

\* C10 as claimed: for a twotone icon whose only color literals are the
\* placeholders, the getter returns the fixed-up icon with exactly the fill
\* values that are placeholders replaced by the colors passed; every other
\* attribute, tag, name, theme and the children are as in the fixed-up icon.
C10_GetterReplacesFillOnly ==
  (emPc = "called" /\ svg.theme = "twotone" /\ ColorLiterals(fixedIcon) \subseteq Placeholders) =>
    call.result = ColoredNode(fixedIcon, {"fill"}, call.primaryColor, call.secondaryColor)

\* C10 amended: for such an icon the getter returns the fixed-up icon with
\* exactly the attribute values that are placeholders replaced by the colors
\* passed, whichever attribute holds them (fill, or another one such as
\* stroke); tag, name, theme, every other attribute value and the children
\* are as in the fixed-up icon.
C10_GetterReplacesPlaceholders ==
  (emPc = "called" /\ svg.theme = "twotone" /\ ColorLiterals(fixedIcon) \subseteq Placeholders) =>
    call.result = ColoredNode(fixedIcon, Range(AttrOrder),
                              call.primaryColor, call.secondaryColor)

\* C10 witness: the getter of an icon with a primary fill, a "#D8D8D8" fill
\* and a stroke was called
C10_Witness ==
  /\ emPc = "called"
  /\ svg.theme = "twotone"
  /\ ColorLiterals(fixedIcon) \subseteq Placeholders
  /\ \E i, j \in 1..Len(fixedIcon.children) :
       /\ fixedIcon.children[i].attrs = MkAttrs("#333", Absent)
       /\ fixedIcon.children[j].attrs = MkAttrs("#D8D8D8", "#333")
       /\ call.result.children[i].attrs = MkAttrs(call.primaryColor, Absent)
       /\ call.result.children[j].attrs = MkAttrs(call.secondaryColor, call.primaryColor)


RECURSIVE PassesThrough(_, _)
\* every attribute value of node n that is no placeholder is the value of the
\* same attribute of the same node in r, at every depth
PassesThrough(n, r) ==
  /\ DOMAIN r.attrs = DOMAIN n.attrs
  /\ \A key \in DOMAIN n.attrs :
       n.attrs[key] \notin Placeholders => r.attrs[key] = n.attrs[key]
  /\ Len(r.children) = Len(n.children)
  /\ \A i \in 1..Len(n.children) : PassesThrough(n.children[i], r.children[i])

\* C11: in the twotone Code Emitter a color literal that is not exactly one
\* of the four placeholders (another spelling of the same color included)
\* stays in the generated module as it is: a constant, whatever primaryColor
\* and secondaryColor are.
C11_OtherLiteralsPassThrough ==
  /\ (emPc \in {"emitted", "called"} /\ svg.theme = "twotone") =>
       LET text == stringify(fixedIcon)
       IN /\ Len(module.body) = Len(text)
          /\ \A i \in 1..Len(text) :
               (text[i].t = "string" /\ text[i].v \notin Placeholders) =>
                 module.body[i] = text[i]
  /\ (emPc = "called" /\ svg.theme = "twotone") => PassesThrough(fixedIcon, call.result)

\* C11 witness: the getter of an icon with the fills "#e6e6e6" and "#E6E6E6"
\* was called: the first is returned as written, the second as secondaryColor
C11_Witness ==
  /\ emPc = "called"
  /\ svg.theme = "twotone"
  /\ \E i, j \in 1..Len(fixedIcon.children) :
       /\ fillOf(fixedIcon.children[i].attrs) = "#e6e6e6"
       /\ fillOf(call.result.children[i].attrs) = "#e6e6e6"
       /\ fillOf(fixedIcon.children[j].attrs) = "#E6E6E6"
       /\ fillOf(call.result.children[j].attrs) = call.secondaryColor


RECURSIVE NoFillAnywhere(_)
\* neither node n nor a descendant of it has a fill attribute
NoFillAnywhere(n) ==
  /\ "fill" \notin DOMAIN n.attrs
  /\ \A i \in 1..Len(n.children) : NoFillAnywhere(n.children[i])

RECURSIVE SameButFill(_, _)
\* node r is node n without its fill attributes: tags, other attributes and
\* children are those of n
SameButFill(n, r) ==
  /\ r.tag = n.tag
  /\ DOMAIN r.attrs = DOMAIN n.attrs \ {"fill"}
  /\ \A key \in DOMAIN r.attrs : r.attrs[key] = n.attrs[key]
  /\ Len(r.children) = Len(n.children)
  /\ \A i \in 1..Len(n.children) : SameButFill(n.children[i], r.children[i])

\* C12: a fill or outline icon is optimized with the optimizer that strips
\* fill, so no node of its materialized IconDefinition, at any depth, has a
\* fill attribute; a twotone icon is optimized with the unmodified optimizer
\* and keeps the fill attributes of its source.
C12_SingleColorIconsHaveNoFill ==
  emPc # "raw" =>
    /\ svg.theme \in {"fill", "outline"} =>
         /\ NoFillAnywhere(icon)
         /\ SameButFill(svg.root, icon)
    /\ svg.theme = "twotone" =>
         /\ icon.tag = svg.root.tag
         /\ icon.attrs = svg.root.attrs
         /\ icon.children = svg.root.children

\* C12 witness: an outline icon was materialized from a source with a fill on
\* a path, on a group and on a path inside a group
C12_Witness ==
  /\ emPc = "materialized"
  /\ svg.theme = "outline"
  /\ \E i, j \in 1..Len(svg.root.children) :
       /\ svg.root.children[i].tag = "path"
       /\ fillOf(svg.root.children[i].attrs) = "#333"
       /\ svg.root.children[j].tag = "g"
       /\ fillOf(svg.root.children[j].attrs) = "#D9D9D9"
       /\ fillOf(svg.root.children[j].children[1].attrs) = "#333"
       /\ icon.children[j].children[1].attrs = MkAttrs(Absent, Absent)


\* C13: the write tasks are issued in the order: every per-icon task, then
\* the manifest task, then the index task; the manifest task is not issued
\* before the last per-icon task, the index task not before the manifest task.
C13_IconsThenManifestThenIndex ==
  \A i \in 1..Len(issued) :
    /\ issued[i] = ManifestPath =>
         /\ i = Cardinality(svgFiles) + 1
         /\ {issued[j] : j \in 1..(i - 1)} = {ModulePath(k) : k \in svgFiles}
    /\ issued[i] = IndexPath =>
         /\ i = Cardinality(svgFiles) + 2
         /\ issued[i - 1] = ManifestPath
    /\ issued[i] \notin {ManifestPath, IndexPath} =>
         /\ i <= Cardinality(svgFiles)
         /\ \A j \in 1..i : issued[j] \notin {ManifestPath, IndexPath}

\* C13 witness: the scenario run issued its three icon tasks, the twotone one
\* first, then the manifest, then the index
C13_Witness ==
  /\ svgFiles = ScenarioFiles
  /\ Len(issued) = 5
  /\ issued[1] = "twotone/HomeTwoTone.ts"
  /\ issued[4] = ManifestPath
  /\ issued[5] = IndexPath


\* C14: within one run each existing (theme, name) source file is read and
\* optimized exactly once: the index is built from the materialized collection
\* that produced the per-icon write tasks, never from a second materialization.
C14_EachFileMaterializedOnce ==
  \A k \in Pairs : ~(tasks[1][k] # "idle" /\ tasks[2][k] # "idle")

\* the child the Theme Fixup is said to yield: a path-like child without a
\* fill attribute gains fill = #333, any other child is kept
FixedChild(c) ==
  IF c.tag \in PathLike /\ "fill" \notin DOMAIN c.attrs
  THEN [c EXCEPT !.attrs = [key \in DOMAIN c.attrs \cup {"fill"} |->
                              IF key = "fill" THEN PrimaryPlaceholder ELSE c.attrs[key]]]
  ELSE c

\* C15: the Theme Fixup leaves an icon that is not twotone unchanged; for a
\* twotone icon the only difference is that each immediate path-like child
\* whose fill attribute is absent gains fill = #333; a fill that is present,
\* the root's attributes, non-path-like children and deeper descendants are
\* untouched.
C15_FixupOnlyFillsPathsWithoutFill ==
  emPc \in {"emitted", "called"} =>
    /\ svg.theme # "twotone" => fixedIcon = icon
    /\ svg.theme = "twotone" =>
         fixedIcon = [icon EXCEPT !.children =
                        [i \in 1..Len(icon.children) |-> FixedChild(icon.children[i])]]

\* C16: the Theme Fixup never mutates the materialized IconDefinition it
\* receives: after the fixup the materialized icon, root and descendants and
\* their attrs, equals its value before the fixup.
C16_MaterializedIconUntouched ==
  emPc \in {"emitted", "called"} =>
    icon = IconDefinition(kebabCaseName(svg.name), svg.theme,
                          optimize(svg.theme, svg.root))

\* C16 witness: a twotone icon was fixed up, the fixup changed a child, and
\* the materialized icon still has the child without its fill
C16_Witness ==
  /\ emPc = "emitted"
  /\ svg.theme = "twotone"
  /\ \E i \in 1..Len(icon.children) :
       /\ "fill" \notin DOMAIN icon.children[i].attrs
       /\ fillOf(fixedIcon.children[i].attrs) = PrimaryPlaceholder


\* the files of the output directory this run has written
Written == {path \in OutputPaths : wr[path] = "written"}

\* C17: the clear of the previous output completes before normalization
\* starts, normalization completes before any source file is read or
\* optimized, no write task is started before the clear has completed, and
\* after a successful run the output consists only of files written by the run.
C17_ClearNormalizeReadWrite ==
  /\ (pc \in {"normalize", "templates", "streaming"}) => outputDir = Written
  /\ (\E p \in {1, 2}, k \in Pairs : tasks[p][k] # "idle") =>
       /\ pc = "streaming"
       /\ svgBasicNames = diskNames
  /\ (\E path \in OutputPaths : wr[path] # "none") =>
       /\ pc = "streaming"
       /\ outputDir \cap StaleOutput \subseteq Written
  /\ promise = "resolved" => outputDir = Range(issued)

\* C17 witness: the scenario run resolved and the output directory holds its
\* five files and not the module an earlier run could have left
C17_Witness ==
  /\ svgFiles = ScenarioFiles
  /\ promise = "resolved"
  /\ Cardinality(outputDir) = Len(issued)
  /\ IndexPath \in outputDir
  /\ "fill/GoneFill.ts" \notin outputDir


\* the per-file notices printed so far
GeneratedNotices == {path \in OutputPaths : notices[Generated(path)] > 0}

\* C18: on a successful run exactly one 'Generated' notice is printed per
\* written file (materialized icons + 2), each only after its own write has
\* completed, and 'Done.' is printed exactly once, after all of them.
C18_NoticePerFileThenDone ==
  /\ \A path \in OutputPaths :
       notices[Generated(path)] = IF wr[path] = "written" THEN 1 ELSE 0
  /\ notices[Done] = IF promise = "resolved" THEN 1 ELSE 0
  /\ promise = "resolved" =>
       /\ GeneratedNotices = Range(issued)
       /\ Cardinality(GeneratedNotices) = Cardinality(Materialized) + 2
       /\ \A path \in OutputPaths : wr[path] # "inflight"

\* C18 witness: the scenario run resolved with its five per-file notices and
\* one 'Done.'
C18_Witness ==
  /\ svgFiles = ScenarioFiles
  /\ promise = "resolved"
  /\ notices[Done] = 1
  /\ GeneratedNotices = {ModulePath(k) : k \in ScenarioFiles} \cup {ManifestPath, IndexPath}

\* a pool smaller than the number of icons of the scenario
PoolBound == Cardinality(ScenarioFiles) - 1

\* the materialization tasks, the file writes in flight
TasksInFlight ==
  {pk \in {1, 2} \X Pairs : tasks[pk[1]][pk[2]] \in {"reading", "optimizing"}}

WritesInFlight == {path \in OutputPaths : wr[path] = "inflight"}

\* C19: at every point of a run the number of materialization tasks in flight
\* and the number of file writes in flight stay at or below a fixed bound that
\* does not grow with the number of icons.
C19_BoundedTaskPool ==
  /\ Cardinality(TasksInFlight) <= PoolBound
  /\ Cardinality(WritesInFlight) <= PoolBound

\* C20: when every external operation eventually returns or fails, the
\* promise build returns is eventually settled, and it is settled once: what
\* it was settled with never changes, so it is never both resolved and
\* rejected and never left pending.
C20_SettledOnce ==
  /\ <>(promise # "pending")
  /\ [][promise # "pending" => promise' = promise /\ rejectedWith' = rejectedWith]_vars

\* C20 witness: files$ had completed when a write failed; the promise is
\* rejected with that error while other files are written
C20_Witness ==
  /\ promise = "rejected"
  /\ pass = 3
  /\ rejectedWith.kind = "write"
  /\ \E path \in OutputPaths : wr[path] = "written"

====
